---- MODULE Spec2Model ----
(***************************************************************************)
(* Byte-level BPE tokenizer (HindiTokenizer, src/app.py): the merge table  *)
(* and the vocabulary loaded at construction, get_stats, merge, the encode *)
(* loop (one action per loop iteration) and decode.                        *)
(*                                                                         *)
(* A text is a sequence of Unicode code points, a token sequence a         *)
(* sequence of integer ids, a byte string a sequence of integers 0..255.   *)
(***************************************************************************)
EXTENDS Integers, Sequences, FiniteSets, TLC

VARIABLES
    merges,   \* self.merges: the rules in declaration (dict insertion) order
    vocab,    \* self.vocab: id -> byte string
    pc,       \* position of the encode/decode call in progress
    text,     \* encode's argument
    tokens,   \* encode's local `tokens`
    hist,     \* one record per completed iteration of encode's while loop
    result,   \* outcome of the last decode call
    call      \* the last direct call of a primitive, with the state of its argument list

vars == <<merges, vocab, pc, text, tokens, hist, result, call>>

---------------------------------------------------------------------------
(* Bounds of the model *)

MaxRules == 2       \* rules in a merge table
MaxTextLen == 2     \* code points in an encoded text
MaxIdsLen == 4      \* ids in a sequence passed directly to merge / get_stats
MaxDecodeLen == 3   \* ids in a sequence passed directly to decode

(* Inputs: 'a' (U+0061, one byte) and 'e-acute' (U+00E9, two bytes C3 A9) *)
CodePoints == {97, 233}
RawBytes == {97, 169, 195}
MergedIds == {256, 257}

---------------------------------------------------------------------------
(* str.encode("utf-8") and bytes.decode("utf-8", errors='replace') *)

Utf8EncodeChar(cp) ==
    IF cp < 128 THEN <<cp>>
    ELSE IF cp < 2048 THEN <<192 + (cp \div 64), 128 + (cp % 64)>>
    ELSE IF cp < 65536 THEN
        <<224 + (cp \div 4096), 128 + ((cp \div 64) % 64), 128 + (cp % 64)>>
    ELSE <<240 + (cp \div 262144), 128 + ((cp \div 4096) % 64),
           128 + ((cp \div 64) % 64), 128 + (cp % 64)>>

RECURSIVE Utf8Encode(_)
Utf8Encode(t) ==
    IF t = <<>> THEN <<>> ELSE Utf8EncodeChar(Head(t)) \o Utf8Encode(Tail(t))

ReplacementChar == 65533

\* number of bytes of the sequence a lead byte starts, 0 for an invalid lead byte
Utf8SeqLen(b) ==
    IF b < 128 THEN 1
    ELSE IF b >= 194 /\ b <= 223 THEN 2
    ELSE IF b >= 224 /\ b <= 239 THEN 3
    ELSE IF b >= 240 /\ b <= 244 THEN 4
    ELSE 0

\* the range the second byte of a sequence must lie in, given its lead byte
Utf8SecondLo(b) == IF b = 224 THEN 160 ELSE IF b = 240 THEN 144 ELSE 128
Utf8SecondHi(b) == IF b = 237 THEN 159 ELSE IF b = 244 THEN 143 ELSE 191

\* is bs[i+k] a valid k-th continuation byte of the sequence starting at bs[i]
Utf8ContOk(bs, i, k) ==
    /\ i + k <= Len(bs)
    /\ IF k = 1
       THEN bs[i + 1] >= Utf8SecondLo(bs[i]) /\ bs[i + 1] <= Utf8SecondHi(bs[i])
       ELSE bs[i + k] >= 128 /\ bs[i + k] <= 191

\* number of valid continuation bytes that follow the lead byte bs[i]
Utf8ValidCont(bs, i, n) ==
    IF n >= 2 /\ Utf8ContOk(bs, i, 1)
    THEN IF n >= 3 /\ Utf8ContOk(bs, i, 2)
         THEN IF n >= 4 /\ Utf8ContOk(bs, i, 3) THEN 3 ELSE 2
         ELSE 1
    ELSE 0

Utf8CodePoint(bs, i, n) ==
    IF n = 1 THEN bs[i]
    ELSE IF n = 2 THEN (bs[i] - 192) * 64 + (bs[i + 1] - 128)
    ELSE IF n = 3 THEN
        (bs[i] - 224) * 4096 + (bs[i + 1] - 128) * 64 + (bs[i + 2] - 128)
    ELSE (bs[i] - 240) * 262144 + (bs[i + 1] - 128) * 4096
         + (bs[i + 2] - 128) * 64 + (bs[i + 3] - 128)

RECURSIVE Utf8DecodeFrom(_, _)
Utf8DecodeFrom(bs, i) ==
    IF i > Len(bs) THEN <<>>
    ELSE LET n == Utf8SeqLen(bs[i])
             k == Utf8ValidCont(bs, i, n)
         IN  IF n = 0 THEN <<ReplacementChar>> \o Utf8DecodeFrom(bs, i + 1)
             ELSE IF k = n - 1
                  THEN <<Utf8CodePoint(bs, i, n)>> \o Utf8DecodeFrom(bs, i + n)
                  ELSE <<ReplacementChar>> \o Utf8DecodeFrom(bs, i + 1 + k)

Utf8Decode(bs) == Utf8DecodeFrom(bs, 1)

---------------------------------------------------------------------------
(* self.merges: lookups in the insertion-ordered dict *)

HasRule(p) == \E r \in 1..Len(merges) : merges[r].pair = p

MergesGet(p) == merges[CHOOSE r \in 1..Len(merges) : merges[r].pair = p].idx

\* the sort key of encode's min(): self.merges.get(p, float("inf"))
Inf == <<1, 0>>
Key(p) == IF HasRule(p) THEN <<0, MergesGet(p)>> ELSE Inf
KeyLess(x, y) == x[1] < y[1] \/ (x[1] = y[1] /\ x[2] < y[2])

---------------------------------------------------------------------------
(* get_stats: the dict of pair counts, in insertion (first occurrence) order *)

\* counts[pair] = counts.get(pair, 0) + 1 (c: the dict, evaluated once)
CountsPut(counts, p) ==
    LET Put(c) ==
            IF \E k \in 1..Len(c) : c[k].pair = p
            THEN [k \in 1..Len(c) |->
                    IF c[k].pair = p
                    THEN [pair |-> p, count |-> c[k].count + 1]
                    ELSE c[k]]
            ELSE Append(c, [pair |-> p, count |-> 1])
    IN  CHOOSE r \in {Put(c) : c \in {counts}} : TRUE

RECURSIVE get_stats_loop(_, _, _)
get_stats_loop(ids, i, counts) ==
    IF i >= Len(ids) THEN [ids |-> ids, counts |-> counts]
    ELSE get_stats_loop(ids, i + 1, CountsPut(counts, <<ids[i], ids[i + 1]>>))

\* .counts is the returned dict, .ids the argument list as the call leaves it
get_stats(ids) == get_stats_loop(ids, 1, <<>>)

\* max(stats, key=stats.get): the most frequent pair, the first of them on a tie
RECURSIVE most_frequent_loop(_, _, _)
most_frequent_loop(stats, k, best) ==
    IF k > Len(stats) THEN stats[best].pair
    ELSE most_frequent_loop(stats, k + 1,
                            CHOOSE r \in {IF stats[k].count > stats[b].count
                                          THEN k ELSE b : b \in {best}} : TRUE)

min_pair_most_frequent(stats) == most_frequent_loop(stats, 2, 1)

\* the first pair of the sequence that has a rule, the first pair if none has
RECURSIVE first_ruled_loop(_, _)
first_ruled_loop(stats, k) ==
    IF k > Len(stats) THEN stats[1].pair
    ELSE IF HasRule(stats[k].pair) THEN stats[k].pair
    ELSE first_ruled_loop(stats, k + 1)

min_pair_first_ruled(stats) == first_ruled_loop(stats, 1)

\* min(stats, key=...): the first key of the dict among those of least sort key
\* the smaller of the running minimum b and the next key p, b on a tie
\* (c: the running minimum, evaluated once)
MinOfTwo(b, p) ==
    CHOOSE r \in {IF KeyLess(Key(p), Key(c)) THEN p ELSE c : c \in {b}} : TRUE

RECURSIVE min_loop(_, _, _)
min_loop(stats, k, best) ==
    IF k > Len(stats) THEN best
    ELSE min_loop(stats, k + 1, MinOfTwo(best, stats[k].pair))

min_pair(stats) == min_loop(stats, 2, stats[1].pair)

---------------------------------------------------------------------------
(* merge *)

RECURSIVE merge_loop(_, _, _, _, _)
merge_loop(ids, pair, idx, i, newids) ==
    IF i > Len(ids) THEN [ids |-> ids, newids |-> newids]
    ELSE IF i < Len(ids) /\ ids[i] = pair[1] /\ ids[i + 1] = pair[2]
         THEN merge_loop(ids, pair, idx, i + 2, Append(newids, idx))
         ELSE merge_loop(ids, pair, idx, i + 1, Append(newids, ids[i]))

\* i += 1 after a match: the second element of the pair is scanned again
RECURSIVE merge_overlapping_loop(_, _, _, _, _)
merge_overlapping_loop(ids, pair, idx, i, newids) ==
    IF i > Len(ids) THEN [ids |-> ids, newids |-> newids]
    ELSE IF i < Len(ids) /\ ids[i] = pair[1] /\ ids[i + 1] = pair[2]
         THEN merge_overlapping_loop(ids, pair, idx, i + 1, Append(newids, idx))
         ELSE merge_overlapping_loop(ids, pair, idx, i + 1, Append(newids, ids[i]))

merge_overlapping(ids, pair, idx) == merge_overlapping_loop(ids, pair, idx, 1, <<>>)

\* only the first occurrence of the pair is replaced
RECURSIVE merge_first_only_loop(_, _, _, _, _, _)
merge_first_only_loop(ids, pair, idx, i, newids, found) ==
    IF i > Len(ids) THEN [ids |-> ids, newids |-> newids]
    ELSE IF ~found /\ i < Len(ids) /\ ids[i] = pair[1] /\ ids[i + 1] = pair[2]
         THEN merge_first_only_loop(ids, pair, idx, i + 2, Append(newids, idx), TRUE)
         ELSE merge_first_only_loop(ids, pair, idx, i + 1, Append(newids, ids[i]),
                                    found)

merge_first_only(ids, pair, idx) ==
    merge_first_only_loop(ids, pair, idx, 1, <<>>, FALSE)

\* the scan consumes the argument list (ids.pop(0)) instead of indexing it
merge_consuming(ids, pair, idx) ==
    [ids |-> <<>>, newids |-> merge_loop(ids, pair, idx, 1, <<>>).newids]

\* .newids is the returned list, .ids the argument list as the call leaves it
merge(ids, pair, idx) == merge_loop(ids, pair, idx, 1, <<>>)

---------------------------------------------------------------------------
(* decode *)

\* b"".join(self.vocab[idx] for idx in ids): a KeyError at the first absent id
RECURSIVE join_loop(_, _, _)
join_loop(ids, i, acc) ==
    IF i > Len(ids) THEN [raised |-> <<>>, bytes |-> acc, ids |-> ids]
    ELSE IF ids[i] \notin DOMAIN vocab
         THEN [raised |-> <<ids[i]>>, bytes |-> acc, ids |-> ids]
    ELSE join_loop(ids, i + 1, acc \o vocab[ids[i]])

\* the KeyError is swallowed and the text of the ids before it returned
decode_partial(ids) ==
    LET j == join_loop(ids, 1, <<>>)
    IN  [raised |-> <<>>, ret |-> <<Utf8Decode(j.bytes)>>, ids |-> j.ids]

\* .raised holds the key of the KeyError if one is raised, .ret the returned
\* string if one is returned, .ids the argument list as the call leaves it
decode(ids) ==
    LET Finish(j) ==
            IF j.raised # <<>>
            THEN [raised |-> j.raised, ret |-> <<>>, ids |-> j.ids]
            ELSE [raised |-> <<>>, ret |-> <<Utf8Decode(j.bytes)>>, ids |-> j.ids]
    IN  CHOOSE r \in {Finish(j) : j \in {join_loop(ids, 1, <<>>)}} : TRUE

NoResult == [raised |-> <<>>, ret |-> <<>>, ids |-> <<>>]
NoCall == [op |-> "none", ids |-> <<>>, pair |-> <<>>, idx |-> 0,
           idsAfter |-> <<>>, out |-> <<>>]

---------------------------------------------------------------------------
(* The tables the loader can hand over *)

Components == RawBytes \cup {256}
Targets == MergedIds
Rules == [pair : Components \X Components, idx : Targets]

\* keys of a JSON object are distinct
TablesOfLen(R, n) ==
    {s \in [1..n -> R] :
        \A i, j \in 1..n : i # j => s[i].pair # s[j].pair}

Tables == UNION {TablesOfLen(Rules, n) : n \in 0..MaxRules}

\* the tables all of whose rules write the one id 256, itself a component
SingleTargetRules == [pair : Components \X Components, idx : {256}]
SingleTargetTables == UNION {TablesOfLen(SingleTargetRules, n) : n \in 0..MaxRules}

RawVocab == [b \in RawBytes |-> <<b>>]

\* the vocabulary as training derives it from the merges, rule by rule
RECURSIVE BuildVocab(_, _, _)
BuildVocab(ms, k, v) ==
    IF k > Len(ms) THEN v
    ELSE LET r == ms[k]
         IN  IF r.pair[1] \in DOMAIN v /\ r.pair[2] \in DOMAIN v
             THEN BuildVocab(ms, k + 1,
                             (r.idx :> (v[r.pair[1]] \o v[r.pair[2]])) @@ v)
             ELSE BuildVocab(ms, k + 1, v)

Texts == UNION {[1..n -> CodePoints] : n \in 0..MaxTextLen}

---------------------------------------------------------------------------
(* The tokenizer: encode and decode calls, in any order *)

Init ==
    /\ merges \in Tables
    /\ vocab = BuildVocab(merges, 1, RawVocab)
    /\ pc = "idle"
    /\ text = <<>>
    /\ tokens = <<>>
    /\ hist = <<>>
    /\ result = NoResult
    /\ call = NoCall

\* encode, line 63
EncodeStart ==
    /\ pc = "idle"
    /\ \E t \in Texts :
        /\ text' = t
        /\ tokens' = Utf8Encode(t)
    /\ pc' = "loop"
    /\ hist' = <<>>
    /\ result' = NoResult
    /\ UNCHANGED <<merges, vocab, call>>

\* the loop cannot be followed further than this many iterations
IterCap == 2 * MaxTextLen + 1

\* one iteration of the while loop that reaches line 70; get_stats and merge
\* are handed the list `tokens` itself
EncodeIter ==
    /\ pc = "loop"
    /\ Len(hist) < IterCap
    /\ Len(tokens) >= 2
    /\ \E s \in {get_stats(tokens)} :
       \E pair \in {min_pair(s.counts)} :
        /\ HasRule(pair)
        /\ \E idx \in {MergesGet(pair)} :
           \E m \in {merge(s.ids, pair, idx)} :
            /\ tokens' = m.newids
            /\ hist' = Append(hist, [before |-> tokens,
                                     statsArg |-> s.ids,
                                     pair |-> pair,
                                     idx |-> idx,
                                     mergeArg |-> m.ids,
                                     after |-> m.newids])
    /\ UNCHANGED <<merges, vocab, pc, text, result, call>>

\* the loop ends (line 64 or the break of line 68) and encode returns tokens
EncodeReturn ==
    /\ pc = "loop"
    /\ ~(Len(tokens) >= 2
         /\ \E s \in {get_stats(tokens)} : HasRule(min_pair(s.counts)))
    /\ pc' = "done"
    /\ UNCHANGED <<merges, vocab, text, tokens, hist, result, call>>

\* decode applied to what encode returned
DecodeTokens ==
    /\ pc = "done"
    /\ \E d \in {decode(tokens)} :
        /\ result' = d
        /\ tokens' = d.ids
    /\ pc' = "decoded"
    /\ UNCHANGED <<merges, vocab, text, hist, call>>

\* the caller drops the results of the finished call; the tokenizer stays
Release ==
    /\ pc \in {"done", "decoded"}
    /\ pc' = "idle"
    /\ text' = <<>>
    /\ tokens' = <<>>
    /\ hist' = <<>>
    /\ result' = NoResult
    /\ UNCHANGED <<merges, vocab, call>>

Next == EncodeStart \/ EncodeIter \/ EncodeReturn \/ DecodeTokens \/ Release

Spec == Init /\ [][Next]_vars

(* The tokenizer constructed on a table whose rules all write the id 256.   *)
(* A call that has started runs on: nothing in encode blocks or waits.      *)

FairInit ==
    /\ merges \in SingleTargetTables
    /\ vocab = BuildVocab(merges, 1, RawVocab)
    /\ pc = "idle"
    /\ text = <<>>
    /\ tokens = <<>>
    /\ hist = <<>>
    /\ result = NoResult
    /\ call = NoCall

FairSpec ==
    FairInit /\ [][Next]_vars /\ WF_vars(EncodeIter) /\ WF_vars(EncodeReturn)

---------------------------------------------------------------------------
(* The primitives called directly, on arbitrary arguments *)

CallIds == {97, 195, 256}
\* 9999999: an id no vocabulary holds
DecodeIds == RawBytes \cup MergedIds \cup {9999999}
CallVocabs == {RawVocab, (256 :> <<195, 169>>) @@ RawVocab}

SeqsUpTo(S, n) == UNION {[1..k -> S] : k \in 0..n}

CallInit ==
    /\ merges = <<>>
    /\ vocab \in CallVocabs
    /\ pc = "idle"
    /\ text = <<>>
    /\ tokens = <<>>
    /\ hist = <<>>
    /\ result = NoResult
    /\ call = NoCall

CallMerge ==
    /\ call.op = "none"
    /\ \E ids \in SeqsUpTo(CallIds, MaxIdsLen), pair \in CallIds \X CallIds,
          idx \in CallIds :
        \E m \in {merge(ids, pair, idx)} :
            call' = [op |-> "merge", ids |-> ids, pair |-> pair, idx |-> idx,
                     idsAfter |-> m.ids, out |-> m.newids]
    /\ result' = NoResult
    /\ UNCHANGED <<merges, vocab, pc, text, tokens, hist>>

CallGetStats ==
    /\ call.op = "none"
    /\ \E ids \in SeqsUpTo(CallIds, MaxIdsLen) :
        \E s \in {get_stats(ids)} :
            call' = [op |-> "get_stats", ids |-> ids, pair |-> <<>>, idx |-> 0,
                     idsAfter |-> s.ids, out |-> s.counts]
    /\ result' = NoResult
    /\ UNCHANGED <<merges, vocab, pc, text, tokens, hist>>

CallDecode ==
    /\ call.op = "none"
    /\ \E ids \in SeqsUpTo(DecodeIds, MaxDecodeLen) :
        \E d \in {decode(ids)} :
            /\ call' = [op |-> "decode", ids |-> ids, pair |-> <<>>, idx |-> 0,
                        idsAfter |-> d.ids, out |-> <<>>]
            /\ result' = d
    /\ UNCHANGED <<merges, vocab, pc, text, tokens, hist>>

\* the caller drops the result of the finished call
CallRelease ==
    /\ call.op # "none"
    /\ call' = NoCall
    /\ result' = NoResult
    /\ UNCHANGED <<merges, vocab, pc, text, tokens, hist>>

CallNext == CallMerge \/ CallGetStats \/ CallDecode \/ CallRelease

CallSpec == CallInit /\ [][CallNext]_vars

---------------------------------------------------------------------------
(* Notions the properties are stated with *)

\* the adjacent pairs of a sequence
PairsOf(seq) == {<<seq[i], seq[i + 1]>> : i \in 1..(Len(seq) - 1)}

\* position i starts an occurrence of the pair that a left-to-right scan
\* replaces: the pair stands at i and no replaced occurrence starts at i - 1
RECURSIVE Matched(_, _, _)
Matched(ids, pair, i) ==
    /\ i >= 1
    /\ i < Len(ids)
    /\ ids[i] = pair[1]
    /\ ids[i + 1] = pair[2]
    /\ ~Matched(ids, pair, i - 1)

Replaced(ids, pair) == Cardinality({i \in 1..Len(ids) : Matched(ids, pair, i)})

\* the greedy scan, position by position: a position is emitted unless it is
\* the second element of a replaced occurrence
GreedyScan(ids, pair, idx) ==
    LET Emitted(i) == ~Matched(ids, pair, i - 1)
        pos == SelectSeq([i \in 1..Len(ids) |-> i], Emitted)
    IN  [k \in 1..Len(pos) |->
            IF Matched(ids, pair, pos[k]) THEN idx ELSE ids[pos[k]]]

\* declaration rank of a pair that has a rule
Rank(p) == CHOOSE r \in 1..Len(merges) : merges[r].pair = p

\* replacement ids pairwise distinct and strictly increasing in declaration order
IdsIncreasing ==
    \A i, j \in 1..Len(merges) : i < j => merges[i].idx < merges[j].idx

\* replacement ids pairwise distinct, each greater than both components of its pair
IdsAboveComponents ==
    /\ \A i, j \in 1..Len(merges) : i # j => merges[i].idx # merges[j].idx
    /\ \A r \in 1..Len(merges) :
        merges[r].idx > merges[r].pair[1] /\ merges[r].idx > merges[r].pair[2]

\* the vocabulary holds every raw byte as itself and every merge target as the
\* concatenation of the entries of the two ids merged into it
VocabConsistent ==
    /\ \A b \in RawBytes : b \in DOMAIN vocab /\ vocab[b] = <<b>>
    /\ \A r \in 1..Len(merges) :
        /\ {merges[r].pair[1], merges[r].pair[2], merges[r].idx} \subseteq DOMAIN vocab
        /\ vocab[merges[r].idx] = vocab[merges[r].pair[1]] \o vocab[merges[r].pair[2]]

RECURSIVE Expand(_)
Expand(seq) == IF seq = <<>> THEN <<>> ELSE vocab[Head(seq)] \o Expand(Tail(seq))

Returned == pc \in {"done", "decoded"}

\* one step of an encoder that selects by declaration rank
RankEligible(seq) == \E r \in 1..Len(merges) : merges[r].pair \in PairsOf(seq)
RankStep(seq) ==
    LET r == CHOOSE q \in 1..Len(merges) :
                 /\ merges[q].pair \in PairsOf(seq)
                 /\ \A o \in 1..Len(merges) : merges[o].pair \in PairsOf(seq) => q <= o
    IN  merge(seq, merges[r].pair, merges[r].idx).newids

---------------------------------------------------------------------------
(* C1: round trip.  When the vocabulary is consistent with the merge table, *)
(* the vocabulary bytes of what encode returns, concatenated, are the bytes *)
(* of the text, and decode of what encode returns is the text.              *)
C1_RoundTrip ==
    VocabConsistent =>
        /\ Returned => Expand(tokens) = Utf8Encode(text)
        /\ pc = "decoded" => result.raised = <<>> /\ result.ret = <<text>>

C1_Witness ==
    /\ VocabConsistent
    /\ pc = "decoded"
    /\ Len(hist) >= 2
    /\ 233 \in {text[i] : i \in 1..Len(text)}
    /\ result.ret = <<text>>

(* C2, as claimed: for every merge table, the pair merged in an iteration   *)
(* is the earliest declared of the pairs of the sequence that have a rule.  *)
C2_EarliestDeclaredApplied ==
    \A k \in 1..Len(hist) :
        \A r \in 1..Len(merges) :
            merges[r].pair \in PairsOf(hist[k].before) => Rank(hist[k].pair) <= r

(* C2, amended: when the replacement ids are strictly increasing in         *)
(* declaration order, the pair merged in an iteration is the earliest       *)
(* declared of the pairs of the sequence that have a rule, wherever the     *)
(* pairs stand and however often they occur.                                *)
C2_EarliestDeclaredAppliedIfIdsIncreasing ==
    IdsIncreasing => C2_EarliestDeclaredApplied

\* two ruled pairs are present, the later declared one stands first, and the
\* earlier declared one has been applied
C2_Witness ==
    /\ IdsIncreasing
    /\ \E k \in 1..Len(hist) :
        LET b == hist[k].before
        IN  /\ Len(b) >= 3
            /\ HasRule(<<b[1], b[2]>>)
            /\ <<b[1], b[2]>> # hist[k].pair
            /\ Rank(hist[k].pair) < Rank(<<b[1], b[2]>>)

(* C3: what encode returns is a fixed point: none of its adjacent pairs has *)
(* a rule in the merge table.                                               *)
C3_FixedPoint ==
    Returned => \A p \in PairsOf(tokens) : ~HasRule(p)

\* the loop was left by the break, after a merge, with pairs still in the sequence
C3_Witness ==
    /\ pc = "done"
    /\ Len(hist) >= 1
    /\ Len(tokens) >= 2

(* C4: termination.  A call of encode on a text of n bytes makes at most    *)
(* n - 1 merge iterations (none when n = 0), and its loop is always left.   *)
C4_IterationBound ==
    pc # "idle" =>
        LET n == Len(Utf8Encode(text))
        IN  Len(hist) <= IF n = 0 THEN 0 ELSE n - 1

\* C4: the iteration bound always holds and a loop that is entered is left
C4_Termination == [](C4_IterationBound) /\ ((pc = "loop") ~> (pc = "done"))

\* n - 1 iterations were made, one of them by a rule whose replacement id is
\* a component of its own pair
C4_Witness ==
    /\ pc = "done"
    /\ Len(hist) >= 2
    /\ Len(hist) = Len(Utf8Encode(text)) - 1
    /\ \E k \in 1..Len(hist) :
        hist[k].idx \in {hist[k].pair[1], hist[k].pair[2]}

(* C5: monotone shrink.  The token sequence never has more elements than    *)
(* the text has bytes, every iteration shortens it by the number of         *)
(* occurrences it replaces, which is at least one, and encode of a          *)
(* non-empty text returns at least one token.                               *)
C5_MonotoneShrink ==
    /\ pc # "idle" => Len(tokens) <= Len(Utf8Encode(text))
    /\ \A k \in 1..Len(hist) :
        LET n == Replaced(hist[k].before, hist[k].pair)
        IN  /\ n >= 1
            /\ Len(hist[k].after) = Len(hist[k].before) - n
            /\ Len(hist[k].after) < Len(hist[k].before)
    /\ (Returned /\ text # <<>>) => Len(tokens) >= 1

C5_Witness ==
    /\ pc = "done"
    /\ \E k \in 1..Len(hist) : Replaced(hist[k].before, hist[k].pair) >= 2

(* C6: decode of a sequence holding an id the vocabulary lacks raises the   *)
(* KeyError of the first such id and returns nothing; decode of a sequence  *)
(* of ids of the vocabulary raises nothing and returns a text.              *)
C6_UnknownIdDecodeFails ==
    call.op = "decode" =>
        LET bad == {i \in 1..Len(call.ids) : call.ids[i] \notin DOMAIN vocab}
        IN  IF bad # {}
            THEN /\ result.raised =
                        <<call.ids[CHOOSE i \in bad : \A j \in bad : i <= j]>>
                 /\ result.ret = <<>>
            ELSE /\ result.raised = <<>>
                 /\ Len(result.ret) = 1

\* a valid id, then two different unknown ids: the first of them is reported
C6_Witness ==
    /\ call.op = "decode"
    /\ Len(call.ids) = 3
    /\ call.ids[1] \in DOMAIN vocab
    /\ call.ids[2] \notin DOMAIN vocab
    /\ call.ids[3] \notin DOMAIN vocab
    /\ call.ids[2] # call.ids[3]
    /\ result.raised = <<call.ids[2]>>
    /\ result.ret = <<>>

(* C7: merge is the greedy left-to-right scan without overlap: a run of k   *)
(* copies of X becomes k div 2 copies of M followed by k mod 2 copies of X  *)
(* (so [X,X,X] becomes [M,X]), and the elements outside the replaced        *)
(* occurrences are copied in order.                                         *)
C7_NonOverlappingMerge ==
    call.op = "merge" =>
        /\ call.out = GreedyScan(call.ids, call.pair, call.idx)
        /\ Len(call.out) = Len(call.ids) - Replaced(call.ids, call.pair)
        /\ \A X \in CallIds :
            (call.pair = <<X, X>> /\ \A i \in 1..Len(call.ids) : call.ids[i] = X) =>
                LET k == Len(call.ids)
                IN  call.out = [i \in 1..((k \div 2) + (k % 2)) |->
                                    IF i <= k \div 2 THEN call.idx ELSE X]

C7_Witness ==
    /\ call.op = "merge"
    /\ call.ids = <<97, 97, 97>>
    /\ call.pair = <<97, 97>>
    /\ call.idx = 256
    /\ call.out = <<256, 97>>

(* C8: no call changes the merge table or the vocabulary, and get_stats,    *)
(* merge and decode leave the list they are handed as it was.               *)
C8_ArgsKept ==
    \A k \in 1..Len(hist) :
        /\ hist[k].statsArg = hist[k].before
        /\ hist[k].mergeArg = hist[k].before

C9_RankVersusId ==
    /\ \A k \in 1..Len(hist) :
        /\ hist[k].pair \in PairsOf(hist[k].before)
        /\ HasRule(hist[k].pair)
        /\ hist[k].idx = MergesGet(hist[k].pair)
        /\ \A q \in PairsOf(hist[k].before) :
            HasRule(q) => hist[k].idx <= MergesGet(q)
    /\ IdsIncreasing =>
        /\ \A k \in 1..Len(hist) :
            /\ RankEligible(hist[k].before)
            /\ hist[k].after = RankStep(hist[k].before)
        /\ Returned => ~RankEligible(tokens)

\* an iteration had two ruled pairs to choose from
C9_Witness ==
    /\ IdsIncreasing
    /\ pc = "done"
    /\ \E k \in 1..Len(hist) :
        Cardinality({q \in PairsOf(hist[k].before) : HasRule(q)}) >= 2

(* C10: when the replacement ids are pairwise distinct and each greater     *)
(* than both components of its pair, the ids applied by the iterations of   *)
(* one call are strictly increasing, a pair is gone from the sequence once  *)
(* its rule is applied and stays gone, and the iterations are no more than  *)
(* the rules.                                                               *)
C10_EachRuleOnce ==
    IdsAboveComponents =>
        /\ \A k, l \in 1..Len(hist) : k < l => hist[k].idx < hist[l].idx
        /\ \A k, l \in 1..Len(hist) : k # l => hist[k].pair # hist[l].pair
        /\ \A k, l \in 1..Len(hist) :
            k <= l => hist[k].pair \notin PairsOf(hist[l].after)
        /\ \A k \in 1..Len(hist) : hist[k].pair \notin PairsOf(tokens)
        /\ Len(hist) <= Len(merges)

C10_Witness ==
    /\ IdsAboveComponents
    /\ pc = "done"
    /\ Len(hist) = 2
    /\ \E k \in 1..Len(hist) : Replaced(hist[k].before, hist[k].pair) >= 2

====
